---- MODULE Spec2Model ----
(* Model of backend/app.py: the symbol resolver get_stock_symbol and the    *)
(* /predict endpoint predict_stock that calls it.  Strings are sequences of *)
(* one-character strings so that strip(), upper() and f-string formatting   *)
(* are computed, not assumed.                                               *)
EXTENDS Integers, Sequences, FiniteSets, TLC

VARIABLES market, pc, caller, body, user_input, arg, name_or_symbol, hist,
          log, calls, result, symbol, info, pipeline_result, exc, response,
          last

vars == <<market, pc, caller, body, user_input, arg, name_or_symbol, hist,
          log, calls, result, symbol, info, pipeline_result, exc, response,
          last>>

(* ------------------------------------------------------------------ *)
(* Bounds of the model                                                  *)
(* ------------------------------------------------------------------ *)
(* most whitespace characters put around an input, both sides together *)
MaxPad == 2

(* ------------------------------------------------------------------ *)
(* Strings: str.strip() and str.upper()                                 *)
(* ------------------------------------------------------------------ *)
Whitespace == {" ", "\t", "\n", "\r", "\f"}

LowerLetters == <<"a","b","c","d","e","f","g","h","i","j","k","l","m",
                  "n","o","p","q","r","s","t","u","v","w","x","y","z">>
UpperLetters == <<"A","B","C","D","E","F","G","H","I","J","K","L","M",
                  "N","O","P","Q","R","S","T","U","V","W","X","Y","Z">>

UpperChar(c) ==
    IF \E i \in 1..26 : LowerLetters[i] = c
    THEN UpperLetters[CHOOSE i \in 1..26 : LowerLetters[i] = c]
    ELSE c

UpperStr(s) == [i \in 1..Len(s) |-> UpperChar(s[i])]

RECURSIVE LStrip(_)
LStrip(s) ==
    IF s # <<>> /\ Head(s) \in Whitespace THEN LStrip(Tail(s)) ELSE s

RECURSIVE RStrip(_)
RStrip(s) ==
    IF s # <<>> /\ s[Len(s)] \in Whitespace
    THEN RStrip(SubSeq(s, 1, Len(s) - 1))
    ELSE s

Strip(s) == RStrip(LStrip(s))

(* s occurs in t as a contiguous substring (Python: s in t) *)
Contains(t, s) ==
    \E i \in 1..(Len(t) - Len(s) + 1) : SubSeq(t, i, i + Len(s) - 1) = s

(* ------------------------------------------------------------------ *)
(* get_stock_symbol: normalisation, alias table, messages               *)
(* ------------------------------------------------------------------ *)
NormalizeNoUpper(s) == Strip(s)

Normalize(s) == UpperStr(Strip(s))

common_mappings ==
    ( <<"A","P","P","L","E">> :> <<"A","A","P","L">> ) @@
    ( <<"G","O","O","G","L","E">> :> <<"G","O","O","G","L">> ) @@
    ( <<"M","I","C","R","O","S","O","F","T">> :> <<"M","S","F","T">> ) @@
    ( <<"A","M","A","Z","O","N">> :> <<"A","M","Z","N">> ) @@
    ( <<"T","E","S","L","A">> :> <<"T","S","L","A">> ) @@
    ( <<"M","E","T","A">> :> <<"M","E","T","A">> ) @@
    ( <<"N","E","T","F","L","I","X">> :> <<"N","F","L","X">> ) @@
    ( <<"N","V","I","D","I","A">> :> <<"N","V","D","A">> ) @@
    ( <<"A","D","O","B","E">> :> <<"A","D","B","E">> ) @@
    ( <<"S","A","L","E","S","F","O","R","C","E">> :> <<"C","R","M">> )

InMappings(c) == c \in DOMAIN common_mappings

MappedValueKey(c) == c

MappedValue(c) == common_mappings[c]

HistNotEmptyLoose(h) == h # "raise"

HistNotEmptyNever(h) == FALSE

HistNotEmpty(h) == h = "data"

NotFoundPrefix ==
    <<"C","o","u","l","d"," ","n","o","t"," ","f","i","n","d"," ","a"," ",
      "t","i","c","k","e","r"," ","s","y","m","b","o","l"," ","f","o","r",
      " ","'">>
NotFoundSuffix ==
    <<"'","."," ","P","l","e","a","s","e"," ","t","r","y"," ","a"," ","v",
      "a","l","i","d"," ","s","t","o","c","k"," ","s","y","m","b","o","l",
      " ","l","i","k","e"," ","A","A","P","L",","," ","G","O","O","G","L",
      ","," ","e","t","c",".">>

NotFoundMessageAnonymous(c) == NotFoundPrefix \o NotFoundSuffix

NotFoundMessage(c) == NotFoundPrefix \o c \o NotFoundSuffix

StockInputRequired ==
    <<"S","t","o","c","k"," ","i","n","p","u","t"," ","r","e","q","u","i",
      "r","e","d">>

(* str(e) of the exceptions the collaborators can raise *)
ServiceError == <<"s","e","r","v","i","c","e"," ","e","r","r","o","r">>
InfoError == <<"i","n","f","o"," ","e","r","r","o","r">>
PipelineError == <<"p","i","p","e","l","i","n","e"," ","e","r","r","o","r">>

(* ------------------------------------------------------------------ *)
(* Inputs                                                               *)
(* ------------------------------------------------------------------ *)
PadChars == {" ", "\t"}

RECURSIVE PadsOfLen(_)
PadsOfLen(n) ==
    IF n = 0 THEN {<<>>}
    ELSE {<<c>> \o p : c \in PadChars, p \in PadsOfLen(n - 1)}

Pads == UNION {PadsOfLen(n) : n \in 0..MaxPad}

Cores ==
    { <<>>,
      <<"A","P","P","L","E">>, <<"a","p","p","l","e">>, <<"A","p","p","l","e">>,
      <<"Z"," ","Q">>, <<"z"," ","q">>, <<"Z"," ","q">> }

PadPairs == {lr \in Pads \X Pads : Len(lr[1]) + Len(lr[2]) <= MaxPad}

RawInputs == {lr[1] \o c \o lr[2] : lr \in PadPairs, c \in Cores}

(* request.json: absent, {}, {"stock": null}, {"stock": "<text>"} *)
Bodies ==
    {[kind |-> k, stock |-> <<>>] : k \in {"none", "nofield", "null"}}
    \cup {[kind |-> "str", stock |-> s] : s \in RawInputs}

(* ------------------------------------------------------------------ *)
(* The market-data service                                              *)
(* ------------------------------------------------------------------ *)
HistKinds == {"data", "empty", "raise"}

Symbols ==
    LET norms == {UpperStr(Strip(r)) : r \in RawInputs}
    IN  norms \cup
        {common_mappings[n] : n \in norms \cap DOMAIN common_mappings}

(* ticker.history(period="1d") for a symbol; unknown symbols have no data *)
ServiceHistory(sym) == IF sym \in DOMAIN market THEN market[sym] ELSE "empty"

(* ------------------------------------------------------------------ *)
(* Records                                                              *)
(* ------------------------------------------------------------------ *)
NoResult == [kind |-> "none", value |-> <<>>, type |-> "none", msg |-> <<>>]
NoBody == [kind |-> "none", stock |-> <<>>]
NoInfo == [set |-> FALSE, hasPrice |-> FALSE, currentPrice |-> 0,
           hasName |-> FALSE]
NoPipeline == [set |-> FALSE, actual_last_close |-> 0,
               predicted_next_day_close |-> 0]
NoResponse == [status |-> 0, kind |-> "none", error |-> <<>>,
               symbol |-> <<>>, summary |-> "none", company |-> <<>>,
               current_price |-> 0, predicted |-> 0, actual |-> 0]
NoLast == [set |-> FALSE, norm |-> <<>>, verbatim |-> FALSE,
           res |-> NoResult]

LongName == <<"L","o","n","g"," ","N","a","m","e">>

(* one logging call: the emitting function, the level, which format string, *)
(* and the values formatted into it                                         *)
LogEntry(fn, level, event, args) ==
    [fn |-> fn, level |-> level, event |-> event, args |-> args]

(* one outbound call to a collaborator *)
Call(svc, sym) == [svc |-> svc, sym |-> sym]

(* closing prices: a lower and a higher one *)
Prices == {1, 2}

Init ==
    /\ market \in [Symbols -> HistKinds]
    /\ pc = "idle"
    /\ caller = "none"
    /\ body = NoBody
    /\ user_input = <<>>
    /\ arg = <<>>
    /\ name_or_symbol = <<>>
    /\ hist = "none"
    /\ log = <<>>
    /\ calls = <<>>
    /\ result = NoResult
    /\ symbol = <<>>
    /\ info = NoInfo
    /\ pipeline_result = NoPipeline
    /\ exc = <<>>
    /\ response = NoResponse
    /\ last = NoLast

(* ------------------------------------------------------------------ *)
(* Entry points                                                         *)
(* ------------------------------------------------------------------ *)
(* POST /predict arrives with some request body *)
HttpRequest ==
    /\ pc = "idle"
    /\ \E b \in Bodies : body' = b
    /\ caller' = "endpoint"
    /\ pc' = "p_read"
    /\ last' = NoLast
    /\ UNCHANGED <<market, user_input, arg, name_or_symbol, hist, log, calls,
                   result, symbol, info, pipeline_result, exc, response>>

(* get_stock_symbol called on its own with an arbitrary string *)
DirectCall ==
    /\ pc = "idle"
    /\ \E s \in RawInputs : arg' = s
    /\ caller' = "direct"
    /\ pc' = "r_norm"
    /\ UNCHANGED <<market, body, user_input, name_or_symbol, hist, log, calls,
                   result, symbol, info, pipeline_result, exc, response, last>>

(* ------------------------------------------------------------------ *)
(* predict_stock, input validation                                      *)
(* ------------------------------------------------------------------ *)
(* (request.json or {}).get('stock', '') *)
StockField(b) == IF b.kind = "str" THEN b.stock ELSE <<>>

UserInputRaw(b) == StockField(b)

UserInput(b) == Strip(StockField(b))

(* a null 'stock' has no strip(): AttributeError outside the try block *)
ReadInput ==
    /\ pc = "p_read"
    /\ IF body.kind = "null"
       THEN /\ response' = [NoResponse EXCEPT !.status = 500,
                                              !.kind = "unhandled"]
            /\ pc' = "done"
            /\ UNCHANGED user_input
       ELSE /\ user_input' = UserInput(body)
            /\ pc' = "p_check"
            /\ UNCHANGED response
    /\ UNCHANGED <<market, caller, body, arg, name_or_symbol, hist, log,
                   calls, result, symbol, info, pipeline_result, exc, last>>

CheckInput ==
    /\ pc = "p_check"
    /\ IF user_input = <<>>
       THEN /\ response' = [NoResponse EXCEPT !.status = 400,
                                              !.kind = "json",
                                              !.error = StockInputRequired]
            /\ pc' = "done"
            /\ UNCHANGED arg
       ELSE /\ arg' = user_input
            /\ pc' = "r_norm"
            /\ UNCHANGED response
    /\ UNCHANGED <<market, caller, body, user_input, name_or_symbol, hist,
                   log, calls, result, symbol, info, pipeline_result, exc,
                   last>>

(* ------------------------------------------------------------------ *)
(* get_stock_symbol                                                     *)
(* ------------------------------------------------------------------ *)
NormalizeInput ==
    /\ pc = "r_norm"
    /\ name_or_symbol' = Normalize(arg)
    /\ pc' = "r_lookup"
    /\ UNCHANGED <<market, caller, body, user_input, arg, hist, log, calls,
                   result, symbol, info, pipeline_result, exc, response, last>>

HistoryCallsRetry(sym) == <<Call("history", sym), Call("history", sym)>>

HistoryCalls(sym) == <<Call("history", sym)>>

(* yf.Ticker(name_or_symbol).history(period="1d") *)
DirectLookup ==
    /\ pc = "r_lookup"
    /\ calls' = calls \o HistoryCalls(name_or_symbol)
    /\ hist' = ServiceHistory(name_or_symbol)
    /\ pc' = "r_hist"
    /\ UNCHANGED <<market, caller, body, user_input, arg, name_or_symbol, log,
                   result, symbol, info, pipeline_result, exc, response, last>>

LookupHit ==
    /\ pc = "r_hist"
    /\ hist # "raise"
    /\ HistNotEmpty(hist)
    /\ log' = Append(log, LogEntry("get_stock_symbol", "INFO", "direct",
                                   <<name_or_symbol>>))
    /\ result' = [kind |-> "return", value |-> name_or_symbol,
                  type |-> "none", msg |-> <<>>]
    /\ pc' = "r_exit"
    /\ UNCHANGED <<market, caller, body, user_input, arg, name_or_symbol, hist,
                   calls, symbol, info, pipeline_result, exc, response, last>>

LookupEmpty ==
    /\ pc = "r_hist"
    /\ hist # "raise"
    /\ ~HistNotEmpty(hist)
    /\ pc' = "r_map"
    /\ UNCHANGED <<market, caller, body, user_input, arg, name_or_symbol, hist,
                   log, calls, result, symbol, info, pipeline_result, exc,
                   response, last>>

WarningEntriesNone(c, e) == <<>>

WarningEntries(c, e) ==
    <<LogEntry("get_stock_symbol", "WARNING", "lookup_failed", <<c, e>>)>>

LookupRaisedPropagates ==
    /\ pc = "r_hist"
    /\ hist = "raise"
    /\ result' = [kind |-> "raise", value |-> <<>>, type |-> "Exception",
                  msg |-> ServiceError]
    /\ pc' = "r_exit"
    /\ UNCHANGED <<market, caller, body, user_input, arg, name_or_symbol, hist,
                   log, calls, symbol, info, pipeline_result, exc, response,
                   last>>

(* except Exception as e: logging.warning(...) and fall through *)
LookupRaised ==
    /\ pc = "r_hist"
    /\ hist = "raise"
    /\ log' = log \o WarningEntries(name_or_symbol, ServiceError)
    /\ pc' = "r_map"
    /\ UNCHANGED <<market, caller, body, user_input, arg, name_or_symbol, hist,
                   calls, result, symbol, info, pipeline_result, exc, response,
                   last>>

MappingHit ==
    /\ pc = "r_map"
    /\ InMappings(name_or_symbol)
    /\ log' = Append(log, LogEntry("get_stock_symbol", "INFO", "mapping",
                          <<name_or_symbol, MappedValue(name_or_symbol)>>))
    /\ result' = [kind |-> "return", value |-> MappedValue(name_or_symbol),
                  type |-> "none", msg |-> <<>>]
    /\ pc' = "r_exit"
    /\ UNCHANGED <<market, caller, body, user_input, arg, name_or_symbol, hist,
                   calls, symbol, info, pipeline_result, exc, response, last>>

MappingMiss ==
    /\ pc = "r_map"
    /\ ~InMappings(name_or_symbol)
    /\ log' = Append(log, LogEntry("get_stock_symbol", "ERROR", "not_found",
                                   <<name_or_symbol>>))
    /\ result' = [kind |-> "raise", value |-> <<>>, type |-> "ValueError",
                  msg |-> NotFoundMessage(name_or_symbol)]
    /\ pc' = "r_exit"
    /\ UNCHANGED <<market, caller, body, user_input, arg, name_or_symbol, hist,
                   calls, symbol, info, pipeline_result, exc, response, last>>

ResolverExitIgnoringFailure ==
    /\ pc = "r_exit"
    /\ IF caller = "direct"
       THEN pc' = "done" /\ UNCHANGED <<symbol, exc>>
       ELSE symbol' = name_or_symbol /\ pc' = "p_info" /\ UNCHANGED exc
    /\ UNCHANGED <<market, caller, body, user_input, arg, name_or_symbol, hist,
                   log, calls, result, info, pipeline_result, response, last>>

(* control goes back to the caller: the value is bound to symbol, an *)
(* exception reaches the endpoint's except clause                    *)
ResolverExit ==
    /\ pc = "r_exit"
    /\ IF caller = "direct"
       THEN pc' = "done" /\ UNCHANGED <<symbol, exc>>
       ELSE IF result.kind = "return"
            THEN symbol' = result.value /\ pc' = "p_info" /\ UNCHANGED exc
            ELSE exc' = result.msg /\ pc' = "p_except" /\ UNCHANGED symbol
    /\ UNCHANGED <<market, caller, body, user_input, arg, name_or_symbol, hist,
                   log, calls, result, info, pipeline_result, response, last>>

(* ------------------------------------------------------------------ *)
(* predict_stock, after resolution                                      *)
(* ------------------------------------------------------------------ *)
(* yf.Ticker(symbol).info: raises, or a dict that may lack the keys read *)
QueryInfo ==
    /\ pc = "p_info"
    /\ calls' = Append(calls, Call("info", symbol))
    /\ \/ /\ exc' = InfoError
          /\ pc' = "p_except"
          /\ UNCHANGED info
       \/ /\ \E hp \in BOOLEAN, hn \in BOOLEAN, p \in Prices :
                /\ (~hp => p = 1)
                /\ info' = [set |-> TRUE, hasPrice |-> hp,
                            currentPrice |-> IF hp THEN p ELSE 0,
                            hasName |-> hn]
          /\ pc' = "p_pipeline"
          /\ UNCHANGED exc
    /\ UNCHANGED <<market, caller, body, user_input, arg, name_or_symbol, hist,
                   log, result, symbol, pipeline_result, response, last>>

(* run_full_pipeline(symbol, window_size=..., prediction_days=...) *)
RunPipeline ==
    /\ pc = "p_pipeline"
    /\ calls' = Append(calls, Call("pipeline", symbol))
    /\ \/ /\ exc' = PipelineError
          /\ pc' = "p_except"
          /\ UNCHANGED pipeline_result
       \/ /\ \E a \in Prices, p \in Prices :
                pipeline_result' = [set |-> TRUE, actual_last_close |-> a,
                                    predicted_next_day_close |-> p]
          /\ pc' = "p_respond"
          /\ UNCHANGED exc
    /\ UNCHANGED <<market, caller, body, user_input, arg, name_or_symbol, hist,
                   log, result, symbol, info, response, last>>

BuildResponse ==
    /\ pc = "p_respond"
    /\ LET current_price == IF info.hasPrice THEN info.currentPrice
                            ELSE pipeline_result.actual_last_close
           company_name == IF info.hasName THEN LongName ELSE symbol
           predicted == pipeline_result.predicted_next_day_close
       IN  /\ response' = [status |-> 200, kind |-> "json", error |-> <<>>,
                           symbol |-> symbol,
                           summary |-> IF predicted > current_price
                                       THEN "increase" ELSE "decrease",
                           company |-> company_name,
                           current_price |-> current_price,
                           predicted |-> predicted,
                           actual |-> pipeline_result.actual_last_close]
           /\ log' = Append(log, LogEntry("predict_stock", "INFO",
                                          "prediction_complete", <<symbol>>))
    /\ pc' = "done"
    /\ UNCHANGED <<market, caller, body, user_input, arg, name_or_symbol, hist,
                   calls, result, symbol, info, pipeline_result, exc, last>>

(* except Exception as e: log and answer 500 with str(e) *)
HandleException ==
    /\ pc = "p_except"
    /\ log' = Append(log, LogEntry("predict_stock", "ERROR", "route_error",
                                   <<exc>>))
    /\ response' = [NoResponse EXCEPT !.status = 500, !.kind = "json",
                                      !.error = exc]
    /\ pc' = "done"
    /\ UNCHANGED <<market, caller, body, user_input, arg, name_or_symbol, hist,
                   calls, result, symbol, info, pipeline_result, exc, last>>

(* the invocation is over; the next one starts from a clean frame.  After *)
(* a direct call of get_stock_symbol, last remembers its outcome, the     *)
(* trimmed, uppercased form of the text it was given and whether the text *)
(* was already in that form, for the direct call that follows             *)
Finish ==
    /\ pc = "done"
    /\ pc' = "idle"
    /\ last' = IF caller = "direct"
               THEN [set |-> TRUE, norm |-> UpperStr(Strip(arg)),
                     verbatim |-> (arg = UpperStr(Strip(arg))),
                     res |-> result]
               ELSE last
    /\ caller' = "none"
    /\ body' = NoBody
    /\ user_input' = <<>>
    /\ arg' = <<>>
    /\ name_or_symbol' = <<>>
    /\ hist' = "none"
    /\ log' = <<>>
    /\ calls' = <<>>
    /\ result' = NoResult
    /\ symbol' = <<>>
    /\ info' = NoInfo
    /\ pipeline_result' = NoPipeline
    /\ exc' = <<>>
    /\ response' = NoResponse
    /\ UNCHANGED market

Next ==
    \/ HttpRequest
    \/ DirectCall
    \/ ReadInput
    \/ CheckInput
    \/ NormalizeInput
    \/ DirectLookup
    \/ LookupHit
    \/ LookupEmpty
    \/ LookupRaised
    \/ MappingHit
    \/ MappingMiss
    \/ ResolverExit
    \/ QueryInfo
    \/ RunPipeline
    \/ BuildResponse
    \/ HandleException
    \/ Finish

Spec == Init /\ [][Next]_vars

TypeOK ==
    /\ pc \in {"idle", "p_read", "p_check", "r_norm", "r_lookup", "r_hist",
               "r_map", "r_exit", "p_info", "p_pipeline", "p_respond",
               "p_except", "done"}
    /\ caller \in {"none", "endpoint", "direct"}
    /\ hist \in HistKinds \cup {"none"}
    /\ result.kind \in {"none", "return", "raise"}
    /\ response.status \in {0, 200, 400, 500}

(* ------------------------------------------------------------------ *)
(* Vocabulary of the properties                                         *)
(* ------------------------------------------------------------------ *)
(* the trimmed, uppercased form of a text *)
NormalForm(s) == UpperStr(Strip(s))

(* the market-data service returns non-empty history for sym *)
Accepts(sym) == ServiceHistory(sym) = "data"

AliasKeys == DOMAIN common_mappings

ResolverPcs == {"r_norm", "r_lookup", "r_hist", "r_map", "r_exit"}

(* get_stock_symbol has been entered; it has finished and is handing its *)
(* outcome to the caller                                                 *)
ResolverInvoked == pc \in ResolverPcs \/ result.kind # "none"
ResolverFinished == pc = "r_exit"
Returned == result.kind = "return"
Raised == result.kind = "raise"

IsHistoryCall(c) == c.svc = "history"
IsDownstreamCall(c) == c.svc \in {"info", "pipeline"}
IsResolverEntry(e) == e.fn = "get_stock_symbol"

HistoryCallsMade == SelectSeq(calls, IsHistoryCall)
DownstreamCallsMade == SelectSeq(calls, IsDownstreamCall)
ResolverLog == SelectSeq(log, IsResolverEntry)

ExampleAAPL == <<"A","A","P","L">>
ExampleGOOGL == <<"G","O","O","G","L">>

(* ------------------------------------------------------------------ *)
(* C1                                                                   *)
(* ------------------------------------------------------------------ *)
(* C1 as stated: whenever get_stock_symbol returns, the symbol is       *)
(* non-empty and the market-data service returns non-empty history for  *)
(* it, on the direct return and on the alias-table return alike.        *)
C1_ReturnedSymbolAccepted ==
    Returned => result.value # <<>> /\ Accepts(result.value)

(* C1 as the code has it: get_stock_symbol ends by returning or by       *)
(* raising its ValueError; a returned symbol is either the normal form   *)
(* of the input, for which the service returned non-empty history, or    *)
(* the alias table's non-empty value for that normal form, which is not  *)
(* checked against the service; it is non-empty whenever the normal form *)
(* of the input is.                                                      *)
C1_ReturnedSymbolDirectOrAlias ==
    ResolverFinished =>
        /\ Raised => result.type = "ValueError"
        /\ Returned =>
            /\ \/ /\ result.value = NormalForm(arg)
                  /\ Accepts(result.value)
               \/ /\ NormalForm(arg) \in AliasKeys
                  /\ result.value = common_mappings[NormalForm(arg)]
                  /\ result.value # <<>>
            /\ NormalForm(arg) # <<>> => result.value # <<>>

(* an alias-table return of a symbol the service has no data for *)
C1_Witness ==
    /\ Returned
    /\ hist # "data"
    /\ result.value = ExampleAAPL
    /\ ~Accepts(result.value)

(* ------------------------------------------------------------------ *)
(* C2                                                                   *)
(* ------------------------------------------------------------------ *)
(* C2: when the service returns non-empty history for the normal form   *)
(* of the input, get_stock_symbol returns exactly that normal form, the *)
(* alias table is not consulted (the only log entry is the direct one), *)
(* also when the normal form is an alias key.                           *)
C2_DirectLookupWins ==
    (ResolverFinished /\ Accepts(NormalForm(arg))) =>
        /\ Returned
        /\ result.value = NormalForm(arg)
        /\ Len(ResolverLog) = 1
        /\ ResolverLog[1].event = "direct"

(* an alias key given in lower case with padding, recognised directly *)
C2_Witness ==
    /\ Returned
    /\ arg # NormalForm(arg)
    /\ NormalForm(arg) \in AliasKeys
    /\ Accepts(NormalForm(arg))
    /\ result.value = NormalForm(arg)
    /\ result.value # common_mappings[NormalForm(arg)]

(* ------------------------------------------------------------------ *)
(* C3                                                                   *)
(* ------------------------------------------------------------------ *)
(* C3: when the normal form of the input is an alias key and the        *)
(* service does not return non-empty history for it (empty history or   *)
(* exception), get_stock_symbol returns the alias table's value.        *)
C3_AliasFallback ==
    (ResolverFinished /\ NormalForm(arg) \in AliasKeys
                      /\ ~Accepts(NormalForm(arg))) =>
        /\ Returned
        /\ result.value = common_mappings[NormalForm(arg)]

(* 'apple' -> 'AAPL' after the direct lookup threw *)
C3_Witness ==
    /\ Returned
    /\ arg = <<"a","p","p","l","e">>
    /\ hist = "raise"
    /\ result.value = ExampleAAPL

(* ------------------------------------------------------------------ *)
(* C4                                                                   *)
(* ------------------------------------------------------------------ *)
(* C4 as stated: an input neither recognised directly nor an alias key  *)
(* makes get_stock_symbol raise ValueError, return no symbol, with a    *)
(* message that contains the original input text and the example        *)
(* symbols.                                                             *)
C4_MessageNamesOriginalInput ==
    (ResolverFinished /\ ~Accepts(NormalForm(arg))
                      /\ NormalForm(arg) \notin AliasKeys) =>
        /\ Raised
        /\ result.type = "ValueError"
        /\ result.value = <<>>
        /\ Contains(result.msg, arg)
        /\ Contains(result.msg, ExampleAAPL)
        /\ Contains(result.msg, ExampleGOOGL)

(* C4 as the code has it: the message contains the normal form          *)
(* (trimmed, uppercased) of the input, in quotes, and the example       *)
(* symbols AAPL and GOOGL.                                              *)
C4_MessageNamesNormalForm ==
    (ResolverFinished /\ ~Accepts(NormalForm(arg))
                      /\ NormalForm(arg) \notin AliasKeys) =>
        /\ Raised
        /\ result.type = "ValueError"
        /\ result.value = <<>>
        /\ Contains(result.msg, <<"'">> \o NormalForm(arg) \o <<"'">>)
        /\ Contains(result.msg, ExampleAAPL)
        /\ Contains(result.msg, ExampleGOOGL)

(* a failure for an input that is not in normal form *)
C4_Witness ==
    /\ Raised
    /\ arg # NormalForm(arg)
    /\ NormalForm(arg) # <<>>
    /\ ~Contains(result.msg, arg)

(* ------------------------------------------------------------------ *)
(* C5                                                                   *)
(* ------------------------------------------------------------------ *)
(* C5: an exception of the direct lookup never leaves get_stock_symbol: *)
(* the outcome is the alias value when the normal form is an alias key  *)
(* and the not-found ValueError otherwise; the not-found ValueError is  *)
(* the only failure get_stock_symbol ends with.                         *)
C5_LookupExceptionSwallowed ==
    ResolverFinished =>
        /\ hist = "raise" =>
              IF NormalForm(arg) \in AliasKeys
              THEN Returned /\ result.value = common_mappings[NormalForm(arg)]
              ELSE Raised
        /\ Raised =>
              /\ result.type = "ValueError"
              /\ result.msg = NotFoundPrefix \o NormalForm(arg)
                                  \o NotFoundSuffix

(* the lookup threw and the input is no alias key *)
C5_Witness ==
    /\ hist = "raise"
    /\ Raised
    /\ result.type = "ValueError"
    /\ Len(ResolverLog) = 2

(* ------------------------------------------------------------------ *)
(* C6                                                                   *)
(* ------------------------------------------------------------------ *)
(* C6: two invocations of get_stock_symbol under the same service       *)
(* behaviour whose inputs have the same trimmed, uppercased form end    *)
(* with the same outcome: the same symbol or the same failure.          *)
C6_CaseAndPaddingImmaterial ==
    (ResolverFinished /\ last.set /\ last.norm = NormalForm(arg)) =>
        result = last.res

(* the previous input was in normal form, this one is a padded or       *)
(* lower-case spelling of it                                            *)
C6_Witness ==
    /\ ResolverFinished
    /\ last.set
    /\ last.verbatim
    /\ last.norm = NormalForm(arg)
    /\ last.norm # <<>>
    /\ arg # NormalForm(arg)
    /\ result = last.res

(* ------------------------------------------------------------------ *)
(* C7                                                                   *)
(* ------------------------------------------------------------------ *)
(* C7: an invocation of get_stock_symbol makes at most one call to the  *)
(* market-data service, and none after the direct lookup: while it runs *)
(* the only call made is that one, and when it has finished exactly one *)
(* history call has been made on every path.                            *)
C7_AtMostOneServiceCall ==
    /\ Len(HistoryCallsMade) <= 1
    /\ pc \in ResolverPcs => Len(calls) <= 1
    /\ pc \in {"r_hist", "r_map", "r_exit"} =>
          calls = <<Call("history", name_or_symbol)>>

(* alias fallback after an exception, still one call *)
C7_Witness ==
    /\ pc = "r_exit"
    /\ hist = "raise"
    /\ Returned
    /\ Len(calls) = 1

(* ------------------------------------------------------------------ *)
(* C8                                                                   *)
(* ------------------------------------------------------------------ *)
LevelsAndEvents(l) == [i \in 1..Len(l) |-> <<l[i].level, l[i].event>>]

TerminalEvents == {"direct", "mapping", "not_found"}

ExpectedResolverLog ==
    (IF hist = "raise" THEN << <<"WARNING", "lookup_failed">> >> ELSE <<>>)
    \o << IF Returned /\ hist = "data" THEN <<"INFO", "direct">>
          ELSE IF Returned THEN <<"INFO", "mapping">>
          ELSE <<"ERROR", "not_found">> >>

(* C8: the log entries of an invocation follow its branch: a warning    *)
(* first exactly when the lookup threw, then exactly one terminal entry *)
(* (info direct, info mapping or error), which is the last; no terminal *)
(* entry is written before get_stock_symbol ends.                       *)
C8_LogFollowsBranch ==
    /\ ResolverFinished => LevelsAndEvents(ResolverLog) = ExpectedResolverLog
    /\ pc \in ResolverPcs \ {"r_exit"} =>
          \A i \in 1..Len(ResolverLog) :
              ResolverLog[i].event \notin TerminalEvents

(* warning, then the alias info entry *)
C8_Witness ==
    /\ ResolverFinished
    /\ LevelsAndEvents(ResolverLog) =
          << <<"WARNING", "lookup_failed">>, <<"INFO", "mapping">> >>

(* ------------------------------------------------------------------ *)
(* C9                                                                   *)
(* ------------------------------------------------------------------ *)
(* the request carries no usable stock text *)
BlankRequest ==
    /\ caller = "endpoint"
    /\ pc # "p_read"
    /\ \/ body.kind \in {"none", "nofield"}
       \/ body.kind = "str" /\ Strip(body.stock) = <<>>

(* C9: a request without a 'stock' field, or with an empty or           *)
(* whitespace-only one, is answered 400 'Stock input required' without  *)
(* get_stock_symbol, the market-data service or the pipeline being      *)
(* invoked; the endpoint passes get_stock_symbol only trimmed,          *)
(* non-empty text.                                                      *)
C9_BlankInputRejected ==
    /\ BlankRequest =>
          /\ ~ResolverInvoked
          /\ calls = <<>>
          /\ pc \in {"p_check", "done"}
          /\ pc = "done" => /\ response.status = 400
                            /\ response.error = StockInputRequired
    /\ (caller = "endpoint" /\ ResolverInvoked) =>
          /\ arg # <<>>
          /\ arg = Strip(arg)

(* a whitespace-only stock field answered 400 *)
C9_Witness ==
    /\ pc = "done"
    /\ body.kind = "str"
    /\ body.stock # <<>>
    /\ response.status = 400

(* ------------------------------------------------------------------ *)
(* C10                                                                  *)
(* ------------------------------------------------------------------ *)
(* C10: the metadata query and the pipeline are called only after       *)
(* get_stock_symbol returned, and with the symbol it returned; when it  *)
(* raised, neither is called and the answer is 500 with the resolver's  *)
(* message as the error.                                                *)
C10_ResolverFirst ==
    /\ \A i \in 1..Len(DownstreamCallsMade) :
          /\ Returned
          /\ DownstreamCallsMade[i].sym = result.value
    /\ (caller = "endpoint" /\ Raised) =>
          /\ DownstreamCallsMade = <<>>
          /\ pc \in {"r_exit", "p_except", "done"}
          /\ pc = "done" => /\ response.status = 500
                            /\ response.error = result.msg

(* the resolver failed and the endpoint answered 500 *)
C10_Witness ==
    /\ caller = "endpoint"
    /\ pc = "done"
    /\ Raised
    /\ response.status = 500
    /\ response.error = result.msg
    /\ calls = <<Call("history", name_or_symbol)>>

====
